---- MODULE Spec2Model ----
(***************************************************************************)
(* Model of the bit_collection crate: the BitCollection trait with its     *)
(* default combinators (src/src/lib.rs), the implementation generated by   *)
(* #[derive(BitCollection)] (src/derive/src/lib.rs) and the BitIter        *)
(* iterator wrapper.                                                       *)
(*                                                                         *)
(* A backing word of width W is the set of its set bit positions, a subset *)
(* of 0..W-1 (bit 0 is the least significant).  Value(w) is the unsigned   *)
(* integer the word denotes.  An Item is the integer it converts to (the   *)
(* enum discriminant, or the value its `retr` accessor yields).            *)
(***************************************************************************)
EXTENDS Integers, Sequences, FiniteSets, TLC

VARIABLES ty, c, c0, op, arg, ret, live, itF, itB, outF, outB, endF, endB,
          itD, outD, endD

vars == <<ty, c, c0, op, arg, ret, live, itF, itB, outF, outB, endF, endB,
          itD, outD, endD>>
iterVars == <<live, itF, itB, outF, outB, endF, endB, itD, outD, endD>>

-----------------------------------------------------------------------------
(* Bounds of the model. *)

\* longest Item sequence handed to from_iter / extend
MaxSeqLen == 2

-----------------------------------------------------------------------------
(* The derived types of the repository that the model instantiates. *)

\* #[bit(CastleRight, mask = "0b1111")] struct CastleRights(u8)
CastleRights == [name |-> "CastleRights", width |-> 8, mask |-> {0, 1, 2, 3},
                 itemSize |-> 1, retr |-> FALSE]

\* #[bit(U8Bit, retr = "0")] struct U8Bits(u8): the mask defaults to !0
U8Bits == [name |-> "U8Bits", width |-> 8, mask |-> 0 .. 7, itemSize |-> 1,
           retr |-> TRUE]

Types == {CastleRights, U8Bits}

\* #[bit(Value16Enum)] struct Tuple(u16)
Bits16 == [name |-> "Bits16", width |-> 16, mask |-> 0 .. 15, itemSize |-> 1,
           retr |-> FALSE]

\* the derive applied to a u32 backing field, #[bit(U32Bit, retr = "0")]
U32Bits == [name |-> "U32Bits", width |-> 32, mask |-> 0 .. 31, itemSize |-> 1,
            retr |-> TRUE]

\* #[bit(Square, mask = "!0", retr = "0")] struct Bitboard(u64)
Bitboard == [name |-> "Bitboard", width |-> 64, mask |-> 0 .. 63,
             itemSize |-> 1, retr |-> TRUE]

\* one derived type for each width of backing word
WidthTypes == {CastleRights, U8Bits, Bits16, U32Bits, Bitboard}

W == ty.width

\* the positions of a word of the backing type
BitPos == 0 .. (W - 1)

\* every value of the backing type
Words == SUBSET BitPos

\* `mask`: the #[bit(mask = ..)] attribute, "!0" when absent
Mask == ty.mask

\* The Items of the type: by the crate's safety contract the mask has
\* exactly the bits that correspond to valid instances of the bit type.
Items == Mask

-----------------------------------------------------------------------------
(* Primitive integer operations of the backing type. *)

RECURSIVE Pow2(_)
Pow2(n) == IF n = 0 THEN 1 ELSE 2 * Pow2(n - 1)

RECURSIVE Value(_)
Value(w) ==
    IF w = {} THEN 0
    ELSE LET i == CHOOSE i \in w : TRUE IN Pow2(i) + Value(w \ {i})

And(a, b) == a \cap b

Or(a, b) == a \cup b

Xor(a, b) == (a \ b) \cup (b \ a)

\* `!x` on the backing type: complement over all W bits
Compl(a) == BitPos \ a

\* x.wrapping_sub(1) as a ripple-borrow subtractor: the borrow enters bit 0 and
\* propagates through bit i while every lower bit is 0; the borrow out of bit
\* W-1 is dropped (the wrap).
WrappingSub1(a) ==
    {i \in BitPos : (i \in a) # (\A j \in 0 .. (i - 1) : j \notin a)}

CountOnes(a) == Cardinality(a)

TrailingZeros(a) ==
    IF a = {} THEN W ELSE CHOOSE i \in a : \A j \in a : i <= j

LeadingZeros(a) ==
    IF a = {} THEN W ELSE (W - 1) - (CHOOSE i \in a : \A j \in a : j <= i)

\* `^` on usize operands
RECURSIVE IntXor(_, _)
IntXor(a, b) ==
    IF a = 0 /\ b = 0 THEN 0
    ELSE (((a % 2) + (b % 2)) % 2) + (2 * IntXor(a \div 2, b \div 2))

\* ONE << n on the backing type (n < W for every valid Item; a release build
\* takes the shift amount modulo W)
Shl1(n) == {n % W}

-----------------------------------------------------------------------------
(* Values handed to the generated code. *)

None == <<>>

Some(x) == <<x>>

\* An argument of type T: Into<Self>: an Item, a raw backing integer, or a
\* collection.  seq and cond carry the other parameters of extend / from_iter
\* and of set / setting.
ItemArg(x) ==
    [kind |-> "item", item |-> x, word |-> {}, seq |-> <<>>, cond |-> FALSE]

RawArg(w) ==
    [kind |-> "raw", item |-> 0, word |-> w, seq |-> <<>>, cond |-> FALSE]

CollArg(w) ==
    [kind |-> "coll", item |-> 0, word |-> w, seq |-> <<>>, cond |-> FALSE]

SeqArg(s) ==
    [kind |-> "seq", item |-> 0, word |-> {}, seq |-> s, cond |-> FALSE]

NoArg ==
    [kind |-> "none", item |-> 0, word |-> {}, seq |-> <<>>, cond |-> FALSE]

-----------------------------------------------------------------------------
(* The implementation generated by #[derive(BitCollection)].  A collection  *)
(* is its backing word.                                                    *)

\* #from_x: wraps x as it is
FromX(x) == x

\* the raw conversion without the mask
FromXUnmasked(x) == x

\* #from_x_masked: wraps x & #mask
FromXMasked(x) == And(x, Mask)

\* #convert_x: x.#retr, or `x as #backing`
ConvertX(x) == IF ty.retr THEN x ELSE x % Pow2(W)

\* #item_from_raw: the bit position reinterpreted as an Item of size_of::<Item>
\* bytes
ItemFromRaw(raw) == raw % Pow2(8 * ty.itemSize)

\* impl From<#item> for #name
from_item(item) == FromX(Shl1(ConvertX(item)))

\* impl From<#iter<#name>> for #name
from_bit_iter(iter) == iter

\* impl From<#backing> for #name
from_backing(inner) == FromXMasked(inner)

\* rhs.into() for T: Into<#name>
into(a) ==
    CASE a.kind = "item" -> from_item(a.item)
      [] a.kind = "raw"  -> from_backing(a.word)
      [] OTHER           -> a.word

bitand(self, rhs) == FromX(And(self, into(rhs)))

bitand_assign(self, rhs) == And(self, into(rhs))

bitor(self, rhs) == FromX(Or(self, into(rhs)))

bitor_assign(self, rhs) == Or(self, into(rhs))

bitxor(self, rhs) == FromX(Xor(self, into(rhs)))

bitxor_assign(self, rhs) == Xor(self, into(rhs))

sub(self, rhs) == FromX(And(self, Compl(into(rhs))))

\* `^=` in place of `&= !`
sub_assign_xor(self, rhs) == Xor(self, into(rhs))

sub_assign(self, rhs) == And(self, Compl(into(rhs)))

\* the complement wrapped without the masked conversion
not_unmasked(self) == FromX(Compl(self))

not(self) == into(RawArg(Compl(self)))

\* every bit of the backing word, whatever the mask
FULL_all_ones == BitPos

FULL == Mask

EMPTY == {}

\* count_zeros in place of count_ones
len_zeros(self) == CountOnes(Compl(self))

len(self) == CountOnes(self)

is_empty(self) == self = {}

\* the `&` with the word itself left out
has_multiple_no_and(self) == WrappingSub1(self) # {}

has_multiple(self) == And(self, WrappingSub1(self)) # {}

lsb_unchecked(self) == ItemFromRaw(TrailingZeros(self))

\* the leading-zero count taken as the position
msb_unchecked_no_xor(self) == ItemFromRaw(LeadingZeros(self))

msb_unchecked(self) == ItemFromRaw(IntXor(W - 1, LeadingZeros(self)))

\* `=` in place of `&=`
remove_lsb_no_and(self) == WrappingSub1(self)

remove_lsb(self) == And(self, WrappingSub1(self))

\* any common bit in place of every bit
contains_any(self, other) == And(self, into(other)) # {}

contains(self, other) == And(self, into(other)) = into(other)

-----------------------------------------------------------------------------
(* Default methods of the BitCollection trait. *)

lsb(self) == IF is_empty(self) THEN None ELSE Some(lsb_unchecked(self))

\* the least significant bit returned for the most significant
msb_from_lsb(self) ==
    IF is_empty(self) THEN None ELSE Some(lsb_unchecked(self))

msb(self) == IF is_empty(self) THEN None ELSE Some(msb_unchecked(self))

\* pop_lsb / pop_msb are generated; they yield the new word and the result.
pop_lsb(self) ==
    LET x == lsb(self) IN
    IF x = None THEN [bits |-> self, ret |-> None]
    ELSE [bits |-> remove_lsb(self), ret |-> x]

\* the least significant bit cleared for the most significant
pop_msb_clears_lsb(self) ==
    LET x == msb(self) IN
    IF x = None THEN [bits |-> self, ret |-> None]
    ELSE [bits |-> remove_lsb(self), ret |-> x]

pop_msb(self) ==
    LET x == msb(self) IN
    IF x = None THEN [bits |-> self, ret |-> None]
    ELSE [bits |-> Xor(self, from_item(x[1])), ret |-> x]

remove_msb(self) == pop_msb(self).bits

\* the popped bit returned whatever is left
into_bit_unchecked(self) == pop_lsb(self).ret

into_bit(self) ==
    LET p == pop_lsb(self) IN IF is_empty(p.bits) THEN p.ret ELSE None

removing(self, other) == sub(self, CollArg(into(other)))

\* `^` in place of `|`
inserting_xor(self, other) == bitxor(self, CollArg(into(other)))

inserting(self, other) == bitor(self, CollArg(into(other)))

toggling(self, other) == bitxor(self, CollArg(into(other)))

intersecting(self, other) == bitand(self, CollArg(into(other)))

setting(self, other, condition) ==
    IF condition THEN inserting(self, other) ELSE removing(self, other)

remove(self, other) == sub_assign(self, CollArg(into(other)))

insert(self, other) == bitor_assign(self, CollArg(into(other)))

toggle(self, other) == bitxor_assign(self, CollArg(into(other)))

intersect(self, other) == bitand_assign(self, CollArg(into(other)))

\* the two branches exchanged
set_swapped(self, other, condition) ==
    IF condition THEN remove(self, other) ELSE insert(self, other)

set(self, other, condition) ==
    IF condition THEN insert(self, other) ELSE remove(self, other)

\* impl FromIterator: iter.into_iter().fold(Self::EMPTY, inserting)
RECURSIVE fold(_, _)
fold(acc, iter) ==
    IF iter = <<>> THEN acc
    ELSE fold(inserting(acc, ItemArg(Head(iter))), Tail(iter))

from_iter(iter) == fold(EMPTY, iter)

\* impl Extend: self.insert(Self::from_iter(iter))
extend(self, iter) == insert(self, CollArg(from_iter(iter)))

\* impl IntoIterator: BitIter(self)
into_iter(self) == self

\* BitIter::next / next_back / len
next(it) == pop_lsb(it)

next_back(it) == pop_msb(it)

iter_len(it) == len(it)

\* BitIter::size_hint: (len, Some(len))
size_hint(it) == <<iter_len(it), Some(iter_len(it))>>

-----------------------------------------------------------------------------
(* The client: one collection c that it constructs and operates on, and a   *)
(* pair of BitIter values over copies of c, one drained from the front and  *)
(* one from the back (as tests/derive.rs does with FULL and FULL.rev()),    *)
(* and a third BitIter over a copy of c that is drained from both ends;     *)
(* outD holds what it yielded, each Item with the end it came from.         *)
(* The client finishes with the iterators before it operates on c again.    *)
(* op, arg, ret and c0 record the last operation, its argument, its result  *)
(* and the value of c before it.                                            *)

\* raw backing integers handed in as operands: 0b1010_0101, 0b1111_0000,
\* 0b0000_0110
RawInputs == {{0, 2, 5, 7}, {4, 5, 6, 7}, {1, 2}}

Operands ==
    {ItemArg(x) : x \in Items} \cup {RawArg(w) : w \in RawInputs}
        \cup {CollArg(FULL), CollArg(EMPTY)}

ItemSeqs == UNION {[1 .. n -> Items] : n \in 0 .. MaxSeqLen}

Init ==
    /\ ty = CastleRights
    /\ c \in {FULL, EMPTY}
    /\ c0 = c
    /\ op = "const"
    /\ arg = NoArg
    /\ ret = None
    /\ live = FALSE
    /\ itF = {} /\ itB = {}
    /\ outF = <<>> /\ outB = <<>>
    /\ endF = FALSE /\ endB = FALSE
    /\ itD = {} /\ outD = <<>> /\ endD = FALSE

\* an operation on c: c becomes newc, the operation returns r
Step(name, a, newc, r) ==
    /\ ~live
    /\ c' = newc
    /\ c0' = c
    /\ op' = name
    /\ arg' = a
    /\ ret' = r
    /\ UNCHANGED <<ty, iterVars>>

ConstFull == Step("FULL", NoArg, FULL, None)

ConstEmpty == Step("EMPTY", NoArg, EMPTY, None)

FromItem == \E x \in Items : Step("from_item", ItemArg(x), from_item(x), None)

FromBacking ==
    \E w \in Words : Step("from_backing", RawArg(w), from_backing(w), None)

FromIter ==
    \E s \in ItemSeqs : Step("from_iter", SeqArg(s), from_iter(s), None)

BitAnd == \E v \in Operands : Step("bitand", v, bitand(c, v), None)

BitAndAssign ==
    \E v \in Operands : Step("bitand_assign", v, bitand_assign(c, v), None)

BitOr == \E v \in Operands : Step("bitor", v, bitor(c, v), None)

BitOrAssign ==
    \E v \in Operands : Step("bitor_assign", v, bitor_assign(c, v), None)

BitXor == \E v \in Operands : Step("bitxor", v, bitxor(c, v), None)

BitXorAssign ==
    \E v \in Operands : Step("bitxor_assign", v, bitxor_assign(c, v), None)

Sub == \E v \in Operands : Step("sub", v, sub(c, v), None)

SubAssign ==
    \E v \in Operands : Step("sub_assign", v, sub_assign(c, v), None)

Not == Step("not", NoArg, not(c), None)

Removing == \E v \in Operands : Step("removing", v, removing(c, v), None)

Inserting == \E v \in Operands : Step("inserting", v, inserting(c, v), None)

Toggling == \E v \in Operands : Step("toggling", v, toggling(c, v), None)

Intersecting ==
    \E v \in Operands : Step("intersecting", v, intersecting(c, v), None)

Setting ==
    \E v \in Operands, b \in BOOLEAN :
        Step("setting", [v EXCEPT !.cond = b], setting(c, v, b), None)

Remove == \E v \in Operands : Step("remove", v, remove(c, v), None)

Insert == \E v \in Operands : Step("insert", v, insert(c, v), None)

Toggle == \E v \in Operands : Step("toggle", v, toggle(c, v), None)

Intersect == \E v \in Operands : Step("intersect", v, intersect(c, v), None)

Set ==
    \E v \in Operands, b \in BOOLEAN :
        Step("set", [v EXCEPT !.cond = b], set(c, v, b), None)

Extend == \E s \in ItemSeqs : Step("extend", SeqArg(s), extend(c, s), None)

RemoveLsb == Step("remove_lsb", NoArg, remove_lsb(c), None)

RemoveMsb == Step("remove_msb", NoArg, remove_msb(c), None)

PopLsb == Step("pop_lsb", NoArg, pop_lsb(c).bits, pop_lsb(c).ret)

PopMsb == Step("pop_msb", NoArg, pop_msb(c).bits, pop_msb(c).ret)

\* c.lsb(), c.msb() and c.into_bit() (on a copy of c): c is left alone
Lsb == Step("lsb", NoArg, c, lsb(c))

Msb == Step("msb", NoArg, c, msb(c))

IntoBit == Step("into_bit", NoArg, c, into_bit(c))

\* every collection a raw backing integer converts to
Collections == {from_backing(w) : w \in Words}

\* c.contains(v): c is left alone, the answer is returned
Contains ==
    \E v \in Operands \cup {CollArg(d) : d \in Collections} :
        Step("contains", v, c, Some(contains(c, v)))

\* c.into_iter() on three copies of c
IntoIter ==
    /\ ~live
    /\ live' = TRUE
    /\ itF' = into_iter(c) /\ itB' = into_iter(c)
    /\ outF' = <<>> /\ outB' = <<>>
    /\ endF' = FALSE /\ endB' = FALSE
    /\ itD' = into_iter(c) /\ outD' = <<>> /\ endD' = FALSE
    /\ op' = "into_iter" /\ arg' = NoArg /\ ret' = None /\ c0' = c
    /\ UNCHANGED <<ty, c>>

\* next() on the iterator drained from the front
Next_ ==
    /\ live
    /\ LET p == next(itF) IN
          /\ itF' = p.bits
          /\ ret' = p.ret
          /\ outF' = IF p.ret = None THEN outF ELSE Append(outF, p.ret[1])
          /\ endF' = (endF \/ p.ret = None)
    /\ op' = "next" /\ arg' = NoArg
    /\ UNCHANGED <<ty, c, c0, live, itB, outB, endB, itD, outD, endD>>

\* next_back() on the iterator drained from the back
NextBack ==
    /\ live
    /\ LET p == next_back(itB) IN
          /\ itB' = p.bits
          /\ ret' = p.ret
          /\ outB' = IF p.ret = None THEN outB ELSE Append(outB, p.ret[1])
          /\ endB' = (endB \/ p.ret = None)
    /\ op' = "next_back" /\ arg' = NoArg
    /\ UNCHANGED <<ty, c, c0, live, itF, outF, endF, itD, outD, endD>>

\* next() on the iterator drained from both ends
DeNext ==
    /\ live
    /\ LET p == next(itD) IN
          /\ itD' = p.bits
          /\ ret' = p.ret
          /\ outD' = IF p.ret = None THEN outD
                     ELSE Append(outD, [item |-> p.ret[1], back |-> FALSE])
          /\ endD' = (endD \/ p.ret = None)
    /\ op' = "de_next" /\ arg' = NoArg
    /\ UNCHANGED <<ty, c, c0, live, itF, outF, endF, itB, outB, endB>>

\* next_back() on the iterator drained from both ends
DeNextBack ==
    /\ live
    /\ LET p == next_back(itD) IN
          /\ itD' = p.bits
          /\ ret' = p.ret
          /\ outD' = IF p.ret = None THEN outD
                     ELSE Append(outD, [item |-> p.ret[1], back |-> TRUE])
          /\ endD' = (endD \/ p.ret = None)
    /\ op' = "de_next_back" /\ arg' = NoArg
    /\ UNCHANGED <<ty, c, c0, live, itF, outF, endF, itB, outB, endB>>

\* the iterators go out of scope
DropIter ==
    /\ live
    /\ live' = FALSE
    /\ itF' = {} /\ itB' = {}
    /\ outF' = <<>> /\ outB' = <<>>
    /\ endF' = FALSE /\ endB' = FALSE
    /\ itD' = {} /\ outD' = <<>> /\ endD' = FALSE
    /\ op' = "drop" /\ arg' = NoArg /\ ret' = None /\ c0' = c
    /\ UNCHANGED <<ty, c>>

\* the front iterator is converted back: c = iter.into()
FromBitIter ==
    /\ live
    /\ live' = FALSE
    /\ c' = from_bit_iter(itF)
    /\ itF' = {} /\ itB' = {}
    /\ outF' = <<>> /\ outB' = <<>>
    /\ endF' = FALSE /\ endB' = FALSE
    /\ itD' = {} /\ outD' = <<>> /\ endD' = FALSE
    /\ op' = "from_bit_iter" /\ arg' = NoArg /\ ret' = None /\ c0' = c
    /\ UNCHANGED ty

Next ==
    \/ ConstFull \/ ConstEmpty \/ FromItem \/ FromBacking \/ FromIter
    \/ BitAnd \/ BitAndAssign \/ BitOr \/ BitOrAssign
    \/ BitXor \/ BitXorAssign \/ Sub \/ SubAssign \/ Not
    \/ Removing \/ Inserting \/ Toggling \/ Intersecting \/ Setting
    \/ Remove \/ Insert \/ Toggle \/ Intersect \/ Set \/ Extend
    \/ RemoveLsb \/ RemoveMsb \/ PopLsb \/ PopMsb \/ Contains
    \/ Lsb \/ Msb \/ IntoBit
    \/ IntoIter \/ Next_ \/ NextBack \/ DropIter \/ FromBitIter

Spec == Init /\ [][Next]_vars

-----------------------------------------------------------------------------
(* The bit-extraction surface on its own, over every value of the backing   *)
(* word of each derived type: c starts as the conversion of any raw 8-bit   *)
(* integer and is popped or drained.                                        *)

InitBits ==
    /\ ty \in Types
    /\ c \in {from_backing(w) : w \in Words}
    /\ c0 = c
    /\ op = "const"
    /\ arg = NoArg
    /\ ret = None
    /\ live = FALSE
    /\ itF = {} /\ itB = {}
    /\ outF = <<>> /\ outB = <<>>
    /\ endF = FALSE /\ endB = FALSE
    /\ itD = {} /\ outD = <<>> /\ endD = FALSE

NextBits ==
    \/ RemoveLsb \/ RemoveMsb \/ PopLsb \/ PopMsb
    \/ Lsb \/ Msb \/ IntoBit
    \/ IntoIter \/ Next_ \/ NextBack \/ DropIter \/ FromBitIter

SpecBits == InitBits /\ [][NextBits]_vars

-----------------------------------------------------------------------------
(* Bit extraction over each width of backing word.  c starts as the          *)
(* conversion of a raw integer that has one or two bits set, or a run of     *)
(* consecutive bits set, at any positions of the word (every pair of lowest  *)
(* and highest set bit occurs), or as FULL or EMPTY, or as the conversion of  *)
(* an Item.                                                                  *)

WidthInputs ==
    {{i, j} : i, j \in BitPos} \cup {i .. j : i, j \in BitPos}

InitWidth ==
    /\ ty \in WidthTypes
    /\ \/ /\ c \in {FULL, EMPTY} \cup {from_backing(w) : w \in WidthInputs}
          /\ op = "const"
          /\ arg = NoArg
       \/ \E x \in Items :
              /\ c = from_item(x)
              /\ op = "from_item"
              /\ arg = ItemArg(x)
    /\ c0 = c
    /\ ret = None
    /\ live = FALSE
    /\ itF = {} /\ itB = {}
    /\ outF = <<>> /\ outB = <<>>
    /\ endF = FALSE /\ endB = FALSE
    /\ itD = {} /\ outD = <<>> /\ endD = FALSE

NextWidth == Lsb \/ Msb \/ IntoBit

SpecWidth == InitWidth /\ [][NextWidth]_vars

-----------------------------------------------------------------------------
(* Double-ended draining: an iterator over a copy of any value of the word  *)
(* of each 8-bit type, with next() and next_back() in any interleaving.     *)

NextDeque == IntoIter \/ DeNext \/ DeNextBack \/ DropIter

SpecDeque == InitBits /\ [][NextDeque]_vars

TypeOK ==
    /\ ty \in WidthTypes
    /\ c \in Words /\ c0 \in Words
    /\ itF \in Words /\ itB \in Words /\ itD \in Words
    /\ live \in BOOLEAN /\ endF \in BOOLEAN /\ endB \in BOOLEAN
    /\ endD \in BOOLEAN

-----------------------------------------------------------------------------
(* Notions the properties are stated in. *)

\* bit i of the word is set
BitSet(w, i) == i \in w

\* the bit position of an Item
Position(x) == ConvertX(x)

\* the Item x is a member of the collection w
Member(w, x) == contains(w, ItemArg(x))

\* the word has no bit set outside the mask
WithinMask(w) == \A i \in BitPos : BitSet(w, i) => BitSet(Mask, i)

Occurs(x, s) == \E i \in DOMAIN s : s[i] = x

Reverse(s) == [i \in 1 .. Len(s) |-> s[Len(s) + 1 - i]]

Increasing(s) ==
    \A i, j \in DOMAIN s : i < j => Position(s[i]) < Position(s[j])

Decreasing(s) ==
    \A i, j \in DOMAIN s : i < j => Position(s[i]) > Position(s[j])

LowestBit(w) == CHOOSE i \in w : \A j \in w : i <= j

HighestBit(w) == CHOOSE i \in w : \A j \in w : j <= i

-----------------------------------------------------------------------------
(* Properties. *)

\* C1: mask invariant.  Whatever sequence of the generated operations is
\* applied, starting from FULL or EMPTY and with operands that are Items of
\* the mask, raw backing integers or FULL / EMPTY, the backing word of the
\* collection (and of every iterator made from it) has no bit set outside Mask.
C1_MaskInvariant ==
    /\ WithinMask(c)
    /\ WithinMask(itF)
    /\ WithinMask(itB)

\* a raw integer with bits outside the mask has just been converted
C1_Witness ==
    /\ op = "from_backing"
    /\ ~WithinMask(arg.word)
    /\ c # EMPTY

\* C2: forward draining (repeated next) yields Items in strictly increasing
\* bit-position order, backward draining (repeated next_back) in strictly
\* decreasing order; once both drains of the same collection have ended the
\* two yielded sequences are reverses of each other; FULL of the 4-item type
\* with mask 0b1111 yields [A,B,C,D] forward and [D,C,B,A] backward.
C2_DrainOrder ==
    live =>
        /\ Increasing(outF)
        /\ Decreasing(outB)
        /\ (endF /\ endB) => outF = Reverse(outB)
        /\ (endF /\ endB /\ ty = CastleRights /\ c = FULL) =>
               /\ outF = <<0, 1, 2, 3>>
               /\ outB = <<3, 2, 1, 0>>

\* both drains of FULL of the 4-item type have ended
C2_Witness ==
    /\ live /\ endF /\ endB
    /\ ty = CastleRights
    /\ c = FULL
    /\ Len(outF) = 4 /\ Len(outB) = 4

\* C3: len() of a collection is the number of Items a full drain of a copy
\* yields: next returns None exactly once len() Items were yielded, the
\* iterator's len() is what remains, and the original is unchanged.
C3_LenIsDrainCount ==
    live =>
        /\ c = c0
        /\ Len(outF) + iter_len(itF) = len(c)
        /\ Len(outB) + iter_len(itB) = len(c)
        /\ endF => Len(outF) = len(c)
        /\ endB => Len(outB) = len(c)
        /\ (op = "next" /\ ret = None) => Len(outF) = len(c)
        /\ (op = "next" /\ ret # None) => Len(outF) <= len(c)
        /\ (op = "next_back" /\ ret = None) => Len(outB) = len(c)
        /\ (op = "next_back" /\ ret # None) => Len(outB) <= len(c)

\* a drain of a collection of several Items has just ended
C3_Witness ==
    /\ live /\ endF
    /\ op = "next" /\ ret = None
    /\ len(c) >= 3
    /\ Len(outF) = len(c)

\* C4: after insert(x) the Item x is contained, after remove(x) it is not,
\* and neither changes the membership of any other Item.
C4_InsertRemove ==
    /\ (op = "insert" /\ arg.kind = "item") =>
           /\ Member(c, arg.item)
           /\ \A y \in Items \ {arg.item} : Member(c, y) <=> Member(c0, y)
    /\ (op = "remove" /\ arg.kind = "item") =>
           /\ ~Member(c, arg.item)
           /\ \A y \in Items \ {arg.item} : Member(c, y) <=> Member(c0, y)

\* an Item that was contained has been removed and others remain
C4_Witness ==
    /\ op = "remove" /\ arg.kind = "item"
    /\ Member(c0, arg.item)
    /\ ~Member(c, arg.item)
    /\ c # EMPTY

\* C5: FULL contains every valid Item and its backing word is Mask; EMPTY
\* contains no Item, is_empty() holds of it and its backing word is 0.
C5_FullEmpty ==
    /\ op = "FULL" =>
           /\ \A x \in Items : Member(c, x)
           /\ \A i \in BitPos : BitSet(c, i) <=> BitSet(Mask, i)
           /\ Value(c) = Value(Mask)
    /\ op = "EMPTY" =>
           /\ \A x \in Items : ~Member(c, x)
           /\ is_empty(c)
           /\ Value(c) = 0

\* FULL of the type with mask 0b1111 has been constructed
C5_Witness ==
    /\ op = "FULL"
    /\ Value(c) = 15
    /\ c0 # c

\* C6: for every value of an 8-bit backing word, is_empty() holds exactly when
\* len() is 0 and has_multiple() exactly when len() is more than 1, where
\* has_multiple is word & (word wrapping-minus 1) != 0 and the wrapping
\* subtraction is subtraction modulo 2^8.
C6_Quantity ==
    /\ is_empty(c) <=> (len(c) = 0)
    /\ has_multiple(c) <=> (len(c) > 1)
    /\ Value(WrappingSub1(c)) = (Value(c) + Pow2(W) - 1) % Pow2(W)

\* the word 255 of the 8-bit type with the default mask
C6_Witness ==
    /\ ty = U8Bits
    /\ Value(c) = 255
    /\ has_multiple(c)
    /\ len(c) = 8

\* C7: pop_lsb and pop_msb return None exactly on an empty collection and
\* then leave it unchanged; otherwise pop_lsb (pop_msb) returns the Item at
\* the lowest (highest) set bit position and clears that bit and no other, so
\* len goes down by 1.
C7_Pop ==
    /\ op = "pop_lsb" =>
           /\ (ret = None) <=> is_empty(c0)
           /\ ret = None => c = c0
           /\ ret # None =>
                  /\ Position(ret[1]) = LowestBit(c0)
                  /\ \A i \in BitPos :
                         BitSet(c, i) <=> (BitSet(c0, i) /\ i # LowestBit(c0))
                  /\ len(c) = len(c0) - 1
    /\ op = "pop_msb" =>
           /\ (ret = None) <=> is_empty(c0)
           /\ ret = None => c = c0
           /\ ret # None =>
                  /\ Position(ret[1]) = HighestBit(c0)
                  /\ \A i \in BitPos :
                         BitSet(c, i) <=> (BitSet(c0, i) /\ i # HighestBit(c0))
                  /\ len(c) = len(c0) - 1

\* pop_lsb has taken the lowest Item of a collection that keeps others
C7_Witness ==
    /\ op = "pop_lsb"
    /\ ret # None
    /\ len(c0) >= 3
    /\ LowestBit(c0) > 0
    /\ len(c) = len(c0) - 1

\* C8: contains(d) holds exactly when every bit set in d is set in the
\* collection; for an Item that is membership of its one bit; contains(EMPTY)
\* holds of every collection, EMPTY included.
C8_Contains ==
    op = "contains" =>
        /\ (ret = Some(TRUE)) <=>
               \A i \in BitPos : BitSet(into(arg), i) => BitSet(c, i)
        /\ arg.kind = "item" =>
               ((ret = Some(TRUE)) <=> BitSet(c, Position(arg.item)))
        /\ into(arg) = EMPTY => ret = Some(TRUE)

\* EMPTY.contains(EMPTY) has been asked
C8_Witness ==
    /\ op = "contains"
    /\ arg = CollArg(EMPTY)
    /\ c = EMPTY
    /\ ret = Some(TRUE)

\* C9: the backing word of !c is the complement of c's word ANDed with Mask,
\* so it has no bit outside Mask; c - d equals c & !d.
C9_NotSub ==
    /\ op = "not" =>
           /\ \A i \in BitPos : BitSet(c, i) <=> (~BitSet(c0, i) /\ BitSet(Mask, i))
           /\ WithinMask(c)
    /\ op = "sub" => c = bitand(c0, CollArg(not(into(arg))))
    /\ op = "sub_assign" => c = bitand(c0, CollArg(not(into(arg))))

\* a non-empty collection of the type whose mask is narrower than its word
\* has been complemented
C9_Witness ==
    /\ op = "not"
    /\ Mask # BitPos
    /\ c0 # EMPTY
    /\ c # EMPTY

\* C10: the collection built from a sequence of Items contains exactly the
\* Items that occur in it, whatever their order and repetitions ([B, D] gives
\* len 2 with B and D and without A and C); extend(seq) leaves the union of
\* the old collection and the one built from seq.
C10_FromIterExtend ==
    /\ op = "from_iter" =>
           /\ \A x \in Items : Member(c, x) <=> Occurs(x, arg.seq)
           /\ WithinMask(c)
           /\ arg.seq = <<1, 3>> =>
                  /\ len(c) = 2
                  /\ Member(c, 1) /\ Member(c, 3)
                  /\ ~Member(c, 0) /\ ~Member(c, 2)
    /\ op = "extend" =>
           /\ \A x \in Items :
                  Member(c, x) <=> (Member(c0, x) \/ Occurs(x, arg.seq))
           /\ \A i \in BitPos :
                  BitSet(c, i) <=> (BitSet(c0, i) \/ BitSet(from_iter(arg.seq), i))

\* a collection has been built from a sequence that repeats an Item
C10_Witness ==
    /\ op = "from_iter"
    /\ Len(arg.seq) = 2
    /\ arg.seq[1] = arg.seq[2]
    /\ len(c) = 1


\* C11: each in-place combinator leaves the value its pure counterpart
\* returns: remove / insert / toggle / intersect of v leave removing /
\* inserting / toggling / intersecting of v applied to the prior value, and
\* set(v, cond) / setting(v, cond) give the insert / inserting result when
\* cond is true and the remove / removing result when it is false.
C11_InPlaceIsPure ==
    /\ op = "remove" => c = removing(c0, arg)
    /\ op = "insert" => c = inserting(c0, arg)
    /\ op = "toggle" => c = toggling(c0, arg)
    /\ op = "intersect" => c = intersecting(c0, arg)
    /\ op = "set" =>
           /\ c = setting(c0, arg, arg.cond)
           /\ arg.cond => c = insert(c0, arg) /\ c = inserting(c0, arg)
           /\ ~arg.cond => c = remove(c0, arg) /\ c = removing(c0, arg)
    /\ op = "setting" =>
           /\ c = set(c0, arg, arg.cond)
           /\ arg.cond => c = inserting(c0, arg) /\ c = insert(c0, arg)
           /\ ~arg.cond => c = removing(c0, arg) /\ c = remove(c0, arg)

\* set(v, false) has taken some but not all Items out of the collection
C11_Witness ==
    /\ op = "set"
    /\ ~arg.cond
    /\ c # c0
    /\ c # EMPTY


\* C12: for each width W of backing word in {8, 16, 32, 64}: lsb() and msb()
\* return None exactly on an empty collection and leave the collection alone;
\* on a non-empty one lsb() returns the Item at position trailing_zeros(word)
\* and msb() the Item at position W-1-leading_zeros(word), which is what
\* (W-1) XOR leading_zeros computes; the collection converted from a valid
\* Item x has exactly bit position(x) set and lsb() and msb() of it return x.
C12_LsbMsb ==
    /\ W \in {8, 16, 32, 64}
    /\ op = "lsb" =>
           /\ c = c0
           /\ (ret = None) <=> is_empty(c)
           /\ ret # None =>
                  /\ Position(ret[1]) = TrailingZeros(c)
                  /\ Position(ret[1]) = LowestBit(c)
    /\ op = "msb" =>
           /\ c = c0
           /\ (ret = None) <=> is_empty(c)
           /\ ret # None =>
                  /\ Position(ret[1]) = (W - 1) - LeadingZeros(c)
                  /\ Position(ret[1]) = HighestBit(c)
                  /\ IntXor(W - 1, LeadingZeros(c)) = (W - 1) - LeadingZeros(c)
    /\ op = "from_item" =>
           /\ \A i \in BitPos : BitSet(c, i) <=> (i = Position(arg.item))
           /\ lsb(c) = Some(arg.item)
           /\ msb(c) = Some(arg.item)

\* msb() of a 64-bit collection whose highest and lowest Items differ
C12_Witness ==
    /\ W = 64
    /\ op = "msb"
    /\ ret # None
    /\ lsb(c) # ret
    /\ Position(ret[1]) > 32


\* the Item x was yielded by the iterator drained from both ends
Yielded(x) == \E i \in DOMAIN outD : outD[i].item = x

\* C13: whatever the interleaving of next() and next_back() on a BitIter over
\* a collection: no Item is yielded twice and none that is not in the
\* collection, the Items not yet yielded are those left in the iterator (so
\* each Item has been yielded exactly once when None is returned); every Item
\* that next() yielded has a lower bit position than every Item that
\* next_back() yielded; len() / size_hint of the iterator is the number of
\* Items not yet yielded; after a None every call returns None.
C13_DoubleEnded ==
    live =>
        /\ \A i, j \in DOMAIN outD : i # j => outD[i].item # outD[j].item
        /\ \A i \in DOMAIN outD : Member(c, outD[i].item)
        /\ \A x \in Items : Member(c, x) <=> (Member(itD, x) \/ Yielded(x))
        /\ \A x \in Items : ~(Member(itD, x) /\ Yielded(x))
        /\ endD => \A x \in Items : Member(c, x) <=> Yielded(x)
        /\ \A i, j \in DOMAIN outD :
               (~outD[i].back /\ outD[j].back) =>
                   Position(outD[i].item) < Position(outD[j].item)
        /\ iter_len(itD) = len(c) - Len(outD)
        /\ size_hint(itD) = <<len(c) - Len(outD), Some(len(c) - Len(outD))>>
        /\ (op \in {"de_next", "de_next_back"} /\ endD) => ret = None
        /\ (op \in {"de_next", "de_next_back"} /\ ret = None) =>
               Len(outD) = len(c)

\* a drain that alternated between the two ends has returned None
C13_Witness ==
    /\ live /\ endD
    /\ op = "de_next_back" /\ ret = None
    /\ Len(outD) >= 4
    /\ ~outD[1].back /\ outD[2].back /\ ~outD[3].back /\ outD[4].back


\* C14: into_bit returns Some(x) exactly when the collection has one bit set,
\* and x is then the Item at that bit; it returns None for the empty
\* collection and for every collection with two or more bits set; that is,
\* Some exactly when neither is_empty() nor has_multiple() holds.
C14_IntoBit ==
    op = "into_bit" =>
        /\ (ret # None) <=> (len(c0) = 1)
        /\ ret # None =>
               \A i \in BitPos : BitSet(c0, i) <=> (i = Position(ret[1]))
        /\ is_empty(c0) => ret = None
        /\ len(c0) >= 2 => ret = None
        /\ (ret # None) <=> (~is_empty(c0) /\ ~has_multiple(c0))

\* into_bit of the 8-bit collection that holds only the Item at bit 5
C14_Witness ==
    /\ op = "into_bit"
    /\ ty = U8Bits
    /\ ret = Some(5)
    /\ len(c0) = 1

====
